---- MODULE Spec2Model ----
(***************************************************************************)
(* MoneyMind (src/main.py): script -> TTS -> stock clips -> music ->       *)
(* thumbnail -> assemble long/short -> upload.                             *)
(*                                                                         *)
(* Four specifications share the operators below:                          *)
(*   Spec          one run of run_cycle on a disk without cache            *)
(*   SpecFetch     the media fetchers called again and again on the disk   *)
(*                 cache that outlives a process                           *)
(*   SpecAssemble  assemble_video as a function of its inputs              *)
(*   SpecMeta      generate_script_and_meta as a function of the topic and *)
(*                 the three generator responses                           *)
(***************************************************************************)
EXTENDS Integers, Sequences, FiniteSets, TLC

VARIABLES
    \* ---- the disk (module level lines 23-30 create the four directories)
    clipsDir,    \* clips/: file name -> content
    musicDir,    \* music/: file name -> content
    thumbsDir,   \* thumbnails/: names of the files present
    outDir,      \* outputs/: names of the files present
    \* ---- run_cycle
    pc,          \* the step run_cycle is about to execute
    meta,        \* run_cycle's local `meta`
    clips,       \* run_cycle's local `clips`
    music,       \* run_cycle's local `music`
    raised,      \* the step whose exception escaped run_cycle, or "none"
    trace,       \* history: the steps started in this cycle, in order
    resolved,    \* history: per media fetch call, how it exited
    \* ---- a single call of one function (SpecFetch, SpecTTS, ...)
    call,        \* the arguments of the latest call and what its environment did
    result       \* the latest step's calls: what each did and returned

diskVars  == <<clipsDir, musicDir, thumbsDir, outDir>>
cycleVars == <<pc, meta, clips, music, raised, trace, resolved>>
callVars  == <<call, result>>
vars      == <<clipsDir, musicDir, thumbsDir, outDir,
               pc, meta, clips, music, raised, trace, resolved,
               call, result>>

(***************************************************************************)
(* Bounds                                                                  *)
(***************************************************************************)
MaxId == 2          \* remote ids are 1..MaxId
MaxDur == 7         \* narration lasts 1..MaxDur seconds
MaxSrcDur == 3      \* a source clip lasts 1..MaxSrcDur seconds
MaxClips == 3       \* assemble_video is given at most MaxClips clips
MaxWords == 7       \* a topic has at most MaxWords words

Ids == 1..MaxId
None == <<>>        \* Python's None where a path is expected

Min(a, b) == IF a < b THEN a ELSE b
Max(a, b) == IF a > b THEN a ELSE b

Take(s, n) == SubSeq(s, 1, Min(n, Len(s)))

Range(s) == {s[i] : i \in DOMAIN s}

\* the sequences over S of length at most n
SeqsUpTo(S, n) == UNION {[1..k -> S] : k \in 0..n}

(***************************************************************************)
(* The disk cache                                                          *)
(***************************************************************************)
FileContents == {"complete", "partial", "error_body"}
FileStates == {"absent"} \cup FileContents

ClipNames  == {"pexels", "pix", "pix_img"} \X Ids
MusicNames == {"pix_music"} \X Ids

NoFiles(names) == [n \in names |-> "absent"]

\* Exists with the cache check dropped: every hit is requested again
ExistsNever(dir, dest) == FALSE

\* dest.exists() (lines 127, 151, 161, 184)
Exists(dir, dest) == dir[dest] # "absent"

(***************************************************************************)
(* What the network does to one download request                          *)
(*   ok           200, the whole body is streamed to the file              *)
(*   http_error   a non-2xx response: its body is what iter_content yields *)
(*   conn_error   requests.get raises before the file is opened            *)
(*   interrupted  the stream breaks after open(dest, "wb") created the file*)
(***************************************************************************)
DlOutcomes == {"ok", "http_error", "conn_error", "interrupted"}

\* dl = requests.get(url, stream=True); with open(dest, "wb") as f: write chunks
\* (lines 128-131, 152-155, 162-165, 185-188): no status check, no cleanup
Download(dir, dest, outcome) ==
    CASE outcome = "ok" ->
            [raised |-> FALSE, dir |-> [dir EXCEPT ![dest] = "complete"]]
      [] outcome = "http_error" ->
            [raised |-> FALSE, dir |-> [dir EXCEPT ![dest] = "error_body"]]
      [] outcome = "conn_error" ->
            [raised |-> TRUE, dir |-> dir]
      [] outcome = "interrupted" ->
            [raised |-> TRUE, dir |-> [dir EXCEPT ![dest] = "partial"]]

\* a search hit: its remote id, and whether it carries a download url
Hits == [id : Ids, url : BOOLEAN]

\* a search response: the status raise_for_status() looks at, and the hits
\* (no id twice; listed by ascending id)
SearchResponses ==
    {[status |-> "error", hits |-> <<>>]}
        \cup {[status |-> "ok", hits |-> h] :
                h \in {s \in SeqsUpTo(Hits, MaxId) :
                         \A i, j \in DOMAIN s : i < j => s[i].id < s[j].id}}

FetchCount == 3     \* count=3 (lines 115, 135, 281, 285)
MusicCount == 5     \* count=5 (line 170)

(***************************************************************************)
(* Stock fetch (Pexels + Pixabay)                                          *)
(* A fetcher returns [raised, files, dir, downloads]: whether it raised,   *)
(* its local list when it exited (the caller sees it only when the call    *)
(* returned), the directory afterwards, and the files it requested.        *)
(***************************************************************************)
FetchExit(r, files, dir, dls) ==
    [raised |-> r, files |-> files, dir |-> dir, downloads |-> dls]

\* for v in data.get("videos", [])[:count]: ... (lines 123-132)
RECURSIVE PexelsLoop(_, _, _, _, _, _)
PexelsLoop(videos, outs, i, dir, files, dls) ==
    IF i > Len(videos) THEN FetchExit(FALSE, files, dir, dls)
    ELSE LET v == videos[i]
             dest == <<"pexels", v.id>>
         IN  IF ~v.url
             THEN \* v["video_files"][-1] of an empty list (line 125)
                  FetchExit(TRUE, files, dir, dls)
             ELSE IF ~Exists(dir, dest)
             THEN LET d == Download(dir, dest, outs[i])
                  IN  IF d.raised
                      THEN FetchExit(TRUE, files, d.dir, dls \cup {dest})
                      ELSE PexelsLoop(videos, outs, i + 1, d.dir,
                                      Append(files, dest), dls \cup {dest})
             ELSE PexelsLoop(videos, outs, i + 1, dir, Append(files, dest), dls)

\* fetch_pexels_videos(query, count) (lines 115-133)
fetch_pexels_videos(search, outs, count, dir) ==
    IF search.status # "ok"
    THEN FetchExit(TRUE, <<>>, dir, {})      \* r.raise_for_status() (line 120)
    ELSE PexelsLoop(Take(search.hits, count), outs, 1, dir, <<>>, {})

\* the file a Pixabay hit is stored under (lines 150, 160)
PixabayPrefix(media_type) == IF media_type = "video" THEN "pix" ELSE "pix_img"

\* for h in hits: ... (lines 146-166); a hit without url is skipped
RECURSIVE PixabayLoop(_, _, _, _, _, _, _)
PixabayLoop(hits, outs, i, dir, out, dls, media_type) ==
    IF i > Len(hits) THEN FetchExit(FALSE, out, dir, dls)
    ELSE LET h == hits[i]
             dest == <<PixabayPrefix(media_type), h.id>>
         IN  IF ~h.url
             THEN PixabayLoop(hits, outs, i + 1, dir, out, dls, media_type)
             ELSE IF ~Exists(dir, dest)
             THEN LET d == Download(dir, dest, outs[i])
                  IN  IF d.raised
                      THEN FetchExit(TRUE, out, d.dir, dls \cup {dest})
                      ELSE PixabayLoop(hits, outs, i + 1, d.dir,
                                       Append(out, dest), dls \cup {dest},
                                       media_type)
             ELSE PixabayLoop(hits, outs, i + 1, dir, Append(out, dest), dls,
                              media_type)

\* fetch_pixabay_media(query, count, media_type) (lines 135-167)
fetch_pixabay_media(search, outs, count, media_type, dir) ==
    IF search.status # "ok"
    THEN FetchExit(TRUE, <<>>, dir, {})      \* r.raise_for_status() (line 143)
    ELSE PixabayLoop(Take(search.hits, count), outs, 1, dir, <<>>, {}, media_type)

(***************************************************************************)
(* Music (Pixabay): returns [raised, path, dir, downloads]; `pick` is the  *)
(* index random.choice draws.                                              *)
(***************************************************************************)
MusicExit(r, path, dir, dls) ==
    [raised |-> r, path |-> path, dir |-> dir, downloads |-> dls]

\* fetch_pixabay_music(query, count) (lines 170-190)
fetch_pixabay_music(search, outcome, count, pick, dir) ==
    IF search.status # "ok"
    THEN MusicExit(TRUE, None, dir, {})      \* r.raise_for_status() (line 175)
    ELSE LET hits == Take(search.hits, count)
         IN  IF hits = <<>> THEN MusicExit(FALSE, None, dir, {})
             ELSE LET track == hits[pick]
                      dest == <<"pix_music", track.id>>
                  IN  IF ~track.url THEN MusicExit(FALSE, None, dir, {})
                      ELSE IF ~Exists(dir, dest)
                      THEN LET d == Download(dir, dest, outcome)
                           IN  MusicExit(d.raised,
                                         IF d.raised THEN None ELSE dest,
                                         d.dir, {dest})
                      ELSE MusicExit(FALSE, dest, dir, {})

(***************************************************************************)
(* Script/metadata generator                                               *)
(* Text is a sequence of words.  A generator response is the HTTP status   *)
(* and the message content; the content of the metadata response is a      *)
(* document: a JSON object (with the keys it carries), a JSON array, a     *)
(* JSON scalar, or text that is no JSON at all.                            *)
(***************************************************************************)
MetaKeys == {"title", "description", "tags"}
ScriptKeys == {"script_long", "script_short"}

\* topics = [...] (lines 318-323)
Topics ==
    { <<"5", "passive", "income", "ideas", "for", "teens">>,
      <<"How", "to", "save", "and", "invest", "your", "first", "$100">>,
      <<"The", "brutal", "truth", "about", "working", "a", "9-5">>,
      <<"How", "the", "rich", "think", "about", "money">> }

JsonDocs ==
    {[kind |-> "object", keys |-> K] : K \in SUBSET (MetaKeys \cup {"script_long"})}
        \cup {[kind |-> k, keys |-> {}] : k \in {"array", "scalar", "malformed"}}

\* the value a JSON object of the response carries under key k
JsonValue(k) ==
    CASE k = "title" -> <<"T">>
      [] k = "description" -> <<"D">>
      [] k = "tags" -> <<"a", "b">>
      [] OTHER -> <<"json", k>>

\* a generator response: status "error" is any response gpt_generate raises
\* on (raise_for_status, line 57, or a body without choices, line 58)
GptResponses(contents) ==
    {[status |-> "error", content |-> <<>>]}
        \cup {[status |-> "ok", content |-> c] : c \in contents}

TitleWords == 6     \* topic.split()[:6] (line 81)

\* the except branch of line 81
FallbackMeta(topic) ==
    [k \in MetaKeys |->
        CASE k = "title" -> Take(topic, TitleWords) \o <<"-", "Money", "Mind">>
          [] k = "description" -> topic \o <<"-", "watch", "to", "learn.">>
          [] k = "tags" -> <<"finance", "money", "mindset">>]

\* {"script_long": script_long, "script_short": script_short, **meta} (line 82)
Bundle(script_long, script_short, m) ==
    [k \in ScriptKeys \cup DOMAIN m |->
        IF k \in DOMAIN m THEN m[k]
        ELSE IF k = "script_long" THEN script_long ELSE script_short]

\* generate_script_and_meta(topic) (lines 60-82): [raised, bundle]
generate_script_and_meta(topic, r_long, r_short, r_meta) ==
    IF r_long.status # "ok" \/ r_short.status # "ok" \/ r_meta.status # "ok"
    THEN [raised |-> TRUE, bundle |-> <<>>]         \* gpt_generate raises (57)
    ELSE LET doc == r_meta.content
         IN  IF doc.kind = "malformed"                  \* json.loads raises (78)
             THEN [raised |-> FALSE,
                   bundle |-> Bundle(r_long.content, r_short.content,
                                     FallbackMeta(topic))]
             ELSE IF doc.kind # "object"                \* **meta of a non-mapping
             THEN [raised |-> TRUE, bundle |-> <<>>]
             ELSE [raised |-> FALSE,
                   bundle |-> Bundle(r_long.content, r_short.content,
                                     [k \in doc.keys |-> JsonValue(k)])]

(***************************************************************************)
(* TTS (OpenAI, else gTTS)                                                 *)
(*   primary   what requests.post does: "audio" (200 with an audio content *)
(*             type), "non_audio" (any other response), "raise"            *)
(*   write     what out_path.write_bytes does: "ok" or "raise"             *)
(*   fallback  what the gTTS import / synthesis / save does: "ok", "raise" *)
(***************************************************************************)
PrimaryOutcomes == {"audio", "non_audio", "raise"}
IoOutcomes == {"ok", "raise"}

\* PrimaryReturns with the content-type check of line 98 dropped
PrimaryReturnsAnyResponse(primary, write) == primary # "raise" /\ write = "ok"

\* the try block of lines 87-100 reached its return
PrimaryReturns(primary, write) == primary = "audio" /\ write = "ok"

\* text_to_speech_openai(text, out_path) (lines 85-112)
text_to_speech_openai(primary, write, fallback) ==
    IF PrimaryReturns(primary, write)
    THEN [primary |-> primary, write |-> write, fallback |-> fallback,
          primaryAttempts |-> 1, fallbackAttempts |-> 0,
          raised |-> FALSE, error |-> "none", returned |-> "out_path"]
    ELSE IF fallback = "ok"
    THEN [primary |-> primary, write |-> write, fallback |-> fallback,
          primaryAttempts |-> 1, fallbackAttempts |-> 1,
          raised |-> FALSE, error |-> "none", returned |-> "out_path"]
    ELSE [primary |-> primary, write |-> write, fallback |-> fallback,
          primaryAttempts |-> 1, fallbackAttempts |-> 1,
          raised |-> TRUE, error |-> "fallback", returned |-> "nothing"]

(***************************************************************************)
(* Assemble video                                                          *)
(* A clip file is a video of some length, a still image, or a file neither *)
(* VideoFileClip nor ImageClip can open.  Durations are exact rationals:   *)
(* a timeline is [den, spans], each span being spans[i] / den seconds.     *)
(***************************************************************************)
ClipInputs ==
    {[kind |-> "video", dur |-> d] : d \in 1..MaxSrcDur}
        \cup {[kind |-> "image", dur |-> 0], [kind |-> "unreadable", dur |-> 0]}

MinPerClip == 2     \* max(2, ...) (line 230)

\* per_clip = max(2, audio_dur / max(1, len(clip_files))), times den (line 230)
PerClip(audio_dur, n) == Max(MinPerClip * Max(1, n), audio_dur)

\* the span of one placed clip, times den (lines 233, 236)
ClipSpan(cf, per_clip, den) ==
    IF cf.kind = "video" THEN Min(per_clip, cf.dur * den) ELSE per_clip

\* the video track of lines 223-238
Timeline(audio_dur, clip_files) ==
    IF clip_files = <<>>
    THEN [den |-> 1, spans |-> <<audio_dur>>]           \* fallback.jpg (226)
    ELSE LET n == Len(clip_files)
             den == Max(1, n)
         IN  [den |-> den,
              spans |-> [i \in 1..n |->
                            ClipSpan(clip_files[i], PerClip(audio_dur, n), den)]]

\* whether assemble_video raises (lines 221-246)
AssembleRaises(clip_files, has_music, has_fallback, encode) ==
    \/ clip_files = <<>> /\ ~has_fallback               \* ImageClip(fallback.jpg)
    \/ \E i \in DOMAIN clip_files : clip_files[i].kind = "unreadable"  \* (236)
    \/ has_music                    \* CompositeAudioClip is never imported (243)
    \/ encode = "raise"                                 \* write_videofile (245)

\* assemble_video(voice_file, clip_files, music_file, out_file) (lines 216-246)
assemble_video(audio_dur, clip_files, has_music, has_fallback, encode) ==
    IF AssembleRaises(clip_files, has_music, has_fallback, encode)
    THEN [raised |-> TRUE, den |-> 1, spans |-> <<>>, fallback |-> FALSE]
    ELSE LET t == Timeline(audio_dur, clip_files)
         IN  [raised |-> FALSE, den |-> t.den, spans |-> t.spans,
              fallback |-> clip_files = <<>>]

(***************************************************************************)
(* Main workflow: run_cycle(topic) (lines 264-314)                         *)
(***************************************************************************)
StepOrder ==
    <<"GenerateScript", "Synthesize", "FetchMedia", "FetchMusic",
      "RenderThumbnail", "AssembleLong", "AssembleShort", "Upload">>

\* Successor with the thumbnail rendered after the long video is assembled
SuccessorThumbnailLate(at) ==
    CASE at = "GenerateScript" -> "Synthesize"
      [] at = "Synthesize" -> "FetchPexels"
      [] at = "FetchPexels" -> "FetchPixabay"
      [] at = "FetchPixabay" -> "FetchMusic"
      [] at = "FetchMusic" -> "AssembleLong"
      [] at = "AssembleLong" -> "RenderThumbnail"
      [] at = "RenderThumbnail" -> "AssembleShort"
      [] at = "AssembleShort" -> "Upload"
      [] at = "Upload" -> "Done"

\* the statement that follows each statement of run_cycle
Successor(at) ==
    CASE at = "GenerateScript" -> "Synthesize"          \* line 267 -> 270
      [] at = "Synthesize" -> "FetchPexels"             \* line 275 -> 278
      [] at = "FetchPexels" -> "FetchPixabay"           \* line 283 -> 284
      [] at = "FetchPixabay" -> "FetchMusic"            \* line 287 -> 290
      [] at = "FetchMusic" -> "RenderThumbnail"         \* line 291 -> 294
      [] at = "RenderThumbnail" -> "AssembleLong"       \* line 295 -> 298
      [] at = "AssembleLong" -> "AssembleShort"         \* line 300 -> 303
      [] at = "AssembleShort" -> "Upload"               \* line 307 -> 310
      [] at = "Upload" -> "Done"                        \* line 312 -> 314

\* the step of the orchestrator a statement belongs to
StepOf(at) == IF at \in {"FetchPexels", "FetchPixabay"} THEN "FetchMedia" ELSE at

\* Escape with the exception swallowed: run_cycle goes on to the next statement
EscapeSwallowed(step) ==
    /\ pc' = Successor(pc)
    /\ raised' = raised

\* an exception leaves run_cycle: nothing in run_cycle runs after it
Escape(step) ==
    /\ pc' = "Raised"
    /\ raised' = step

Continue ==
    /\ pc' = Successor(pc)
    /\ raised' = raised

\* one metadata document per branch of lines 77-82
CycleDocs ==
    {[kind |-> "object", keys |-> MetaKeys],
     [kind |-> "malformed", keys |-> {}],
     [kind |-> "array", keys |-> {}]}

\* meta = generate_script_and_meta(topic, long_minutes=10) (line 267)
GenerateScript ==
    /\ pc = "GenerateScript"
    /\ \E topic \in Topics,
          r_long \in GptResponses({<<"long", "script">>}),
          r_short \in GptResponses({<<"short", "script">>}),
          r_meta \in GptResponses(CycleDocs) :
          LET g == generate_script_and_meta(topic, r_long, r_short, r_meta)
          IN  /\ result' = <<[fn |-> "generate_script_and_meta",
                              raised |-> g.raised]>>
              /\ IF g.raised
                 THEN Escape("GenerateScript") /\ meta' = meta
                 ELSE Continue /\ meta' = g.bundle
    /\ trace' = Append(trace, "GenerateScript")
    /\ UNCHANGED <<diskVars, clips, music, resolved, call>>

TtsLog(t) ==
    [fn |-> "text_to_speech_openai", raised |-> t.raised, tts |-> t]

\* text_to_speech_openai for the long, then for the short script (270-275)
Synthesize ==
    /\ pc = "Synthesize"
    /\ \E p1 \in PrimaryOutcomes, w1 \in IoOutcomes, f1 \in IoOutcomes,
          p2 \in PrimaryOutcomes, w2 \in IoOutcomes, f2 \in IoOutcomes :
          LET long == text_to_speech_openai(p1, w1, f1)
              short == text_to_speech_openai(p2, w2, f2)
          IN  IF long.raised
              THEN /\ Escape("Synthesize")
                   /\ result' = <<TtsLog(long)>>
                   /\ outDir' = outDir
              ELSE IF short.raised
              THEN /\ Escape("Synthesize")
                   /\ result' = <<TtsLog(long), TtsLog(short)>>
                   /\ outDir' = outDir \cup {"voice_long"}
              ELSE /\ Continue
                   /\ result' = <<TtsLog(long), TtsLog(short)>>
                   /\ outDir' = outDir \cup {"voice_long", "voice_short"}
    /\ trace' = Append(trace, "Synthesize")
    /\ UNCHANGED <<clipsDir, musicDir, thumbsDir, meta, clips, music, resolved,
                   call>>

\* Extend with the list of a call that raised added as well
ExtendKeepsPartial(list, r) == list \o r.files

\* try: clips += fetch(...) except Exception: print(...) (lines 280-287)
Extend(list, r) == IF r.raised THEN list ELSE list \o r.files

\* what the network does to the request for each hit of a search response.
\* Only the hits that are requested count: a hit without url or with its file
\* in the cache is not requested, and the request that raises is the last.
DlPlans(search, prefix, dir) ==
    {p \in [1..Len(search.hits) -> DlOutcomes] :
        /\ \A i \in DOMAIN p :
              (~search.hits[i].url \/ Exists(dir, <<prefix, search.hits[i].id>>))
                  => p[i] = "ok"
        /\ \A i, j \in DOMAIN p :
              (i < j /\ p[i] \in {"conn_error", "interrupted"}) => p[j] = "ok"}

\* the same for the one track fetch_pixabay_music picks
MusicPlans(search, pick, dir) ==
    IF /\ pick <= Len(search.hits)
       /\ search.hits[pick].url
       /\ ~Exists(dir, <<"pix_music", search.hits[pick].id>>)
    THEN DlOutcomes ELSE {"ok"}

FetchLog(name, r) == [fn |-> name, raised |-> r.raised, files |-> r.files]

\* clips = []; try: clips += fetch_pexels_videos(...) except: print (278-283)
FetchPexels ==
    /\ pc = "FetchPexels"
    /\ \E search \in SearchResponses :
       \E outs \in DlPlans(search, "pexels", clipsDir) :
          LET r == fetch_pexels_videos(search, outs, FetchCount, clipsDir)
          IN  /\ clips' = Extend(<<>>, r)
              /\ clipsDir' = r.dir
              /\ resolved' = Append(resolved, FetchLog("fetch_pexels_videos", r))
    /\ Continue
    /\ trace' = Append(trace, "FetchMedia")
    /\ result' = <<>>
    /\ UNCHANGED <<musicDir, thumbsDir, outDir, meta, music, call>>

\* try: clips += fetch_pixabay_media(..., media_type="video") except: print
\* (lines 284-287)
FetchPixabay ==
    /\ pc = "FetchPixabay"
    /\ \E search \in SearchResponses :
       \E outs \in DlPlans(search, PixabayPrefix("video"), clipsDir) :
          LET r == fetch_pixabay_media(search, outs, FetchCount, "video", clipsDir)
          IN  /\ clips' = Extend(clips, r)
              /\ clipsDir' = r.dir
              /\ resolved' = Append(resolved, FetchLog("fetch_pixabay_media", r))
    /\ Continue
    /\ result' = <<>>
    /\ UNCHANGED <<musicDir, thumbsDir, outDir, meta, music, trace, call>>

\* the indices random.choice(hits) can draw (line 179)
Picks(search, count) == 1..Max(1, Len(Take(search.hits, count)))

\* music = fetch_pixabay_music(query="motivational") (line 290): no try
FetchMusic ==
    /\ pc = "FetchMusic"
    /\ \E search \in SearchResponses :
       \E pick \in Picks(search, MusicCount) :
       \E outcome \in MusicPlans(search, pick, musicDir) :
          LET r == fetch_pixabay_music(search, outcome, MusicCount, pick, musicDir)
          IN  /\ musicDir' = r.dir
              /\ IF r.raised
                 THEN Escape("FetchMusic") /\ music' = music
                 ELSE Continue /\ music' = r.path
    /\ trace' = Append(trace, "FetchMusic")
    /\ result' = <<>>
    /\ UNCHANGED <<clipsDir, thumbsDir, outDir, meta, clips, resolved, call>>

\* create_thumbnail(meta.get("title", "Money Mind"), thumb_file) (294-295);
\* img.save(out_path) (line 212) is the call that can fail
RenderThumbnail ==
    /\ pc = "RenderThumbnail"
    /\ \E save \in IoOutcomes :
          IF save = "raise"
          THEN Escape("RenderThumbnail") /\ thumbsDir' = thumbsDir
          ELSE Continue /\ thumbsDir' = thumbsDir \cup {"thumb"}
    /\ trace' = Append(trace, "RenderThumbnail")
    /\ result' = <<>>
    /\ UNCHANGED <<clipsDir, musicDir, outDir, meta, clips, music, resolved, call>>

\* what VideoFileClip / ImageClip make of a downloaded .mp4: a complete file
\* is a video, an error page is neither video nor image, and a truncated
\* file decodes or not
ClipFile(content, decodes) ==
    IF content = "complete" \/ (content = "partial" /\ decodes)
    THEN [kind |-> "video", dur |-> 1]
    ELSE [kind |-> "unreadable", dur |-> 0]

ClipFiles(paths, decodes) ==
    [i \in DOMAIN paths |-> ClipFile(clipsDir[paths[i]], decodes)]

AssembleLog(a, encode) ==
    [fn |-> "assemble_video", raised |-> a.raised, fallback |-> a.fallback,
     encode |-> encode]

\* assemble_video(long_voice_path, clips, music, long_out) (lines 298-300).
\* Whether it raises does not depend on the lengths of the narration and of
\* the clips (SpecAssemble varies those): they are 1 second here.
AssembleLong ==
    /\ pc = "AssembleLong"
    /\ \E decodes \in BOOLEAN, encode \in IoOutcomes :
          LET a == assemble_video(1, ClipFiles(clips, decodes), music # None,
                                  "fallback.jpg" \in thumbsDir, encode)
          IN  /\ result' = <<AssembleLog(a, encode)>>
              /\ IF a.raised
                 THEN Escape("AssembleLong") /\ outDir' = outDir
                 ELSE Continue /\ outDir' = outDir \cup {"long_out"}
    /\ trace' = Append(trace, "AssembleLong")
    /\ UNCHANGED <<clipsDir, musicDir, thumbsDir, meta, clips, music, resolved,
                   call>>

\* assemble_video(short_voice_path, clips[:2], music, short_out) (303-307)
AssembleShort ==
    /\ pc = "AssembleShort"
    /\ \E decodes \in BOOLEAN, encode \in IoOutcomes :
          LET a == assemble_video(1, ClipFiles(Take(clips, 2), decodes),
                                  music # None, "fallback.jpg" \in thumbsDir,
                                  encode)
          IN  /\ result' = <<AssembleLog(a, encode)>>
              /\ IF a.raised
                 THEN Escape("AssembleShort") /\ outDir' = outDir
                 ELSE Continue /\ outDir' = outDir \cup {"short_out"}
    /\ trace' = Append(trace, "AssembleShort")
    /\ UNCHANGED <<clipsDir, musicDir, thumbsDir, meta, clips, music, resolved,
                   call>>

\* upload_to_youtube(...) (lines 249-261): prints and returns None, with or
\* without the three OAuth values
upload_to_youtube(has_credentials) == None

\* the two upload_to_youtube calls (lines 310-312), then line 314
Upload ==
    /\ pc = "Upload"
    /\ \E has_credentials \in BOOLEAN :
          result' = <<[fn |-> "upload_to_youtube", raised |-> FALSE,
                       returned |-> upload_to_youtube(has_credentials)]>>
    /\ Continue
    /\ trace' = Append(trace, "Upload")
    /\ UNCHANGED <<diskVars, meta, clips, music, resolved, call>>

\* the module level of lines 23-30 on a disk with no cache; thumbnails/
\* holds fallback.jpg only if someone put it there
Init ==
    /\ clipsDir = NoFiles(ClipNames)
    /\ musicDir = NoFiles(MusicNames)
    /\ thumbsDir \in {{}, {"fallback.jpg"}}
    /\ outDir = {}
    /\ pc = "GenerateScript"
    /\ meta = <<>>
    /\ clips = <<>>
    /\ music = None
    /\ raised = "none"
    /\ trace = <<>>
    /\ resolved = <<>>
    /\ call = <<>>
    /\ result = <<>>

Next ==
    \/ GenerateScript
    \/ Synthesize
    \/ FetchPexels
    \/ FetchPixabay
    \/ FetchMusic
    \/ RenderThumbnail
    \/ AssembleLong
    \/ AssembleShort
    \/ Upload

Spec == Init /\ [][Next]_vars

(***************************************************************************)
(* SpecFetch: one of the fetchers, called again and again (as successive   *)
(* cycles do, with the count run_cycle passes) on the cache directories,   *)
(* which outlive a process.  `call` keeps the arguments and the search     *)
(* response of the latest call, `result` what it did.                      *)
(***************************************************************************)
\* the cycle's variables, idle while one function is called on its own
CycleIdle ==
    /\ pc = "call"
    /\ meta = <<>>
    /\ clips = <<>>
    /\ music = None
    /\ raised = "none"
    /\ trace = <<>>
    /\ resolved = <<>>
    /\ thumbsDir = {}
    /\ outDir = {}

InitFetch ==
    /\ CycleIdle
    /\ clipsDir = NoFiles(ClipNames)
    /\ musicDir = NoFiles(MusicNames)
    /\ call \in {[fn |-> "fetch_pexels_videos", media_type |-> "video"],
                [fn |-> "fetch_pixabay_media", media_type |-> "video"],
                [fn |-> "fetch_pixabay_media", media_type |-> "image"],
                [fn |-> "fetch_pixabay_music", media_type |-> "music"]}
    /\ result = <<>>

\* the latest call was made before with the same arguments and search response
Repeats(c) ==
    /\ result # <<>>
    /\ c.fn = call.fn
    /\ c.search = call.search
    /\ c.count = call.count
    /\ c.media_type = call.media_type

CallOf(fn, search, count, media_type, pick) ==
    LET c == [fn |-> fn, search |-> search, count |-> count,
              media_type |-> media_type, pick |-> pick]
    IN  [fn |-> fn, search |-> search, count |-> count,
         media_type |-> media_type, pick |-> pick, repeat |-> Repeats(c)]

\* what a call did: the paths it returned (none when it raised), the files it
\* requested, and the files it found in the cache
FetchResult(r, paths, before) ==
    [raised |-> r.raised,
     returned |-> IF r.raised THEN <<>> ELSE paths,
     downloads |-> r.downloads,
     cached |-> {n \in Range(paths) : Exists(before, n)}]

CallPexels ==
    /\ call.fn = "fetch_pexels_videos"
    /\ \E search \in SearchResponses :
       \E outs \in DlPlans(search, "pexels", clipsDir) :
          LET r == fetch_pexels_videos(search, outs, FetchCount, clipsDir)
          IN  /\ clipsDir' = r.dir
              /\ call' = CallOf(call.fn, search, FetchCount, call.media_type, 0)
              /\ result' = FetchResult(r, r.files, clipsDir)
    /\ UNCHANGED <<musicDir, thumbsDir, outDir, cycleVars>>

CallPixabay ==
    /\ call.fn = "fetch_pixabay_media"
    /\ \E search \in SearchResponses :
       \E outs \in DlPlans(search, PixabayPrefix(call.media_type), clipsDir) :
          LET r == fetch_pixabay_media(search, outs, FetchCount, call.media_type,
                                       clipsDir)
          IN  /\ clipsDir' = r.dir
              /\ call' = CallOf(call.fn, search, FetchCount, call.media_type, 0)
              /\ result' = FetchResult(r, r.files, clipsDir)
    /\ UNCHANGED <<musicDir, thumbsDir, outDir, cycleVars>>

CallMusic ==
    /\ call.fn = "fetch_pixabay_music"
    /\ \E search \in SearchResponses :
       \E pick \in Picks(search, MusicCount) :
       \E outcome \in MusicPlans(search, pick, musicDir) :
          LET r == fetch_pixabay_music(search, outcome, MusicCount, pick, musicDir)
          IN  /\ musicDir' = r.dir
              /\ call' = CallOf(call.fn, search, MusicCount, call.media_type, pick)
              /\ result' = FetchResult(r,
                                       IF r.path = None THEN <<>> ELSE <<r.path>>,
                                       musicDir)
    /\ UNCHANGED <<clipsDir, thumbsDir, outDir, cycleVars>>

NextFetch ==
    \/ CallPexels
    \/ CallPixabay
    \/ CallMusic

SpecFetch == InitFetch /\ [][NextFetch]_vars

(***************************************************************************)
(* SpecAssemble: assemble_video on every input within the bounds           *)
(***************************************************************************)
InitAssemble ==
    /\ CycleIdle
    /\ clipsDir = NoFiles(ClipNames)
    /\ musicDir = NoFiles(MusicNames)
    /\ call \in [fn : {"assemble_video"},
                 audio_dur : 1..MaxDur,
                 clip_files : SeqsUpTo(ClipInputs, MaxClips),
                 has_music : BOOLEAN,
                 has_fallback : BOOLEAN,
                 encode : IoOutcomes]
    /\ result = <<>>

CallAssemble ==
    /\ call.fn = "assemble_video"
    /\ result = <<>>
    /\ result' = <<assemble_video(call.audio_dur, call.clip_files, call.has_music,
                                  call.has_fallback, call.encode)>>
    /\ UNCHANGED <<diskVars, cycleVars, call>>

NextAssemble == CallAssemble

SpecAssemble == InitAssemble /\ [][NextAssemble]_vars

(***************************************************************************)
(* SpecMeta: generate_script_and_meta on every topic and response within   *)
(* the bounds                                                              *)
(***************************************************************************)
TopicWords == {"money", "mind"}

InitMeta ==
    /\ CycleIdle
    /\ clipsDir = NoFiles(ClipNames)
    /\ musicDir = NoFiles(MusicNames)
    /\ call \in [fn : {"generate_script_and_meta"},
                 topic : Topics \cup SeqsUpTo(TopicWords, MaxWords),
                 r_long : GptResponses({<<"long", "script">>}),
                 r_short : GptResponses({<<"short", "script">>}),
                 r_meta : GptResponses(JsonDocs)]
    /\ result = <<>>

CallGenerate ==
    /\ call.fn = "generate_script_and_meta"
    /\ result = <<>>
    /\ result' = <<generate_script_and_meta(call.topic, call.r_long, call.r_short,
                                            call.r_meta)>>
    /\ UNCHANGED <<diskVars, cycleVars, call>>

NextMeta == CallGenerate

SpecMeta == InitMeta /\ [][NextMeta]_vars

(***************************************************************************)
(* The claims                                                              *)
(***************************************************************************)
IsPrefix(s, t) == Len(s) <= Len(t) /\ SubSeq(t, 1, Len(s)) = s

Last(s) == s[Len(s)]

RECURSIVE Sum(_)
Sum(s) == IF s = <<>> THEN 0 ELSE Head(s) + Sum(Tail(s))

\* the calls of the latest step that raised, by function
RaisedLogs(fns) ==
    {i \in DOMAIN result : result[i].fn \in fns /\ result[i].raised}

\* C1: the steps started in a cycle are a prefix of the fixed order
\* GenerateScript, Synthesize, FetchMedia, FetchMusic, RenderThumbnail,
\* AssembleLong, AssembleShort, Upload (so none runs twice or before an
\* earlier one), the statement about to run belongs to the next step of that
\* order, and Done is reached only with all eight steps run, Upload last.
C1_FixedOrder ==
    /\ IsPrefix(trace, StepOrder)
    /\ pc \notin {"Done", "Raised"} =>
          StepOf(pc) = StepOrder[Len(trace) + (IF pc = "FetchPixabay" THEN 0 ELSE 1)]
    /\ pc = "FetchPixabay" => Last(trace) = "FetchMedia"
    /\ pc = "Raised" => raised = Last(trace)
    /\ pc = "Done" => trace = StepOrder /\ Last(trace) = "Upload"

C1_Witness == pc = "Done" /\ Len(trace) = Len(StepOrder)

\* C2: when a generator call or a narration synthesis (both synthesizers
\* having failed) raises, the exception leaves run_cycle at that step: no
\* later step has started, no video was produced, and nothing more runs.
C2_FatalAborts ==
    RaisedLogs({"generate_script_and_meta", "text_to_speech_openai"}) # {} =>
        /\ pc = "Raised"
        /\ raised \in {"GenerateScript", "Synthesize"}
        /\ raised = Last(trace)
        /\ Range(trace) \cap {"FetchMedia", "FetchMusic", "RenderThumbnail",
                              "AssembleLong", "AssembleShort", "Upload"} = {}
        /\ outDir \cap {"long_out", "short_out"} = {}
        /\ ~ENABLED Next

C2_Witness ==
    /\ pc = "Raised"
    /\ raised = "Synthesize"
    /\ Len(result) = 2
    /\ result[2].raised
    /\ result[2].tts.fallbackAttempts = 1

\* C3: no exception of a step after Synthesize escapes run_cycle.
C3_LaterFailuresCaught ==
    raised \notin {"FetchMusic", "RenderThumbnail", "AssembleLong",
                   "AssembleShort", "Upload"}

\* the list a fetch call handed to run_cycle
Returned(log) == IF log.raised THEN <<>> ELSE log.files

\* C4 as claimed: the clip list handed on after the two media fetches holds
\* every clip either call resolved, those of a call that later raised too.
C4_PartialListKept ==
    Len(resolved) = 2 => clips = resolved[1].files \o resolved[2].files

\* C4 as amended: the clip list handed on after the two media fetches is the
\* list returned by the Pexels call followed by the list returned by the
\* Pixabay call, where a call that raised contributes nothing, whatever it
\* had resolved before raising.
C4_ReturnedListsKept ==
    Len(resolved) = 2 => clips = Returned(resolved[1]) \o Returned(resolved[2])

C4_Witness ==
    /\ pc = "AssembleLong"
    /\ Len(resolved) = 2
    /\ resolved[1].raised
    /\ resolved[1].files # <<>>
    /\ ~resolved[2].raised
    /\ Len(resolved[2].files) = 2
    /\ clips = resolved[2].files

\* C5: on a disk holding only the four directories, with script and speech
\* produced, both media fetches returning no clip, no music track, the
\* thumbnail rendered and the encoder working, no step raises and a cycle
\* that ends has produced the long and the short video.
C5_ZeroClipsEndToEnd ==
    ( /\ "fallback.jpg" \notin thumbsDir
      /\ Len(resolved) = 2
      /\ \A i \in DOMAIN resolved : ~resolved[i].raised /\ resolved[i].files = <<>>
      /\ music = None
      /\ "AssembleLong" \in Range(trace)
      /\ \A i \in DOMAIN result :
            result[i].fn = "assemble_video" => result[i].encode = "ok" )
    => /\ raised = "none"
       /\ pc = "Done" => {"long_out", "short_out"} \subseteq outDir

\* C6: every call of text_to_speech_openai attempts the primary synthesizer
\* once; it attempts the fallback once if the primary attempt raised or its
\* response was not a 200 audio response (or writing the audio raised), and
\* never otherwise; it returns the path iff one attempt succeeded, and raises
\* the fallback's error iff both failed.
C6_PrimaryThenFallback ==
    \A i \in DOMAIN result :
        result[i].fn = "text_to_speech_openai" =>
            LET t == result[i].tts
                primaryOk == t.primary = "audio" /\ t.write = "ok"
            IN  /\ t.primaryAttempts = 1
                /\ t.fallbackAttempts = (IF primaryOk THEN 0 ELSE 1)
                /\ (t.returned = "out_path") <=> (primaryOk \/ t.fallback = "ok")
                /\ t.raised <=> (~primaryOk /\ t.fallback = "raise")
                /\ t.error = (IF t.raised THEN "fallback" ELSE "none")
                /\ t.raised <=> (t.returned # "out_path")

C6_Witness ==
    \E i \in DOMAIN result :
        /\ result[i].fn = "text_to_speech_openai"
        /\ result[i].tts.primary = "non_audio"
        /\ result[i].tts.fallbackAttempts = 1
        /\ result[i].tts.returned = "out_path"

\* the step is a fetch that follows a fetch by the same function with the
\* same search response
SameFetchAgain ==
    /\ result # <<>>
    /\ call'.fn = call.fn
    /\ call'.media_type = call.media_type
    /\ call'.search = call.search

\* no file present before the step is requested or changed by it
CacheRespected ==
    /\ \A n \in result'.downloads :
          IF n \in ClipNames THEN clipsDir[n] = "absent" ELSE musicDir[n] = "absent"
    /\ \A n \in ClipNames : clipsDir[n] # "absent" => clipsDir'[n] = clipsDir[n]
    /\ \A n \in MusicNames : musicDir[n] # "absent" => musicDir'[n] = musicDir[n]

SameListReturned ==
    ~result.raised => (~result'.raised /\ result'.returned = result.returned)

\* C7 as claimed: a fetch repeated with the same search response requests no
\* file that is present, leaves the files present unchanged, and returns the
\* list the first fetch returned; for every fetcher.
C7_IdempotentAllFetchers ==
    [][SameFetchAgain => (CacheRespected /\ SameListReturned)]_vars

\* C7 as amended: a fetch repeated with the same search response requests no
\* file that is present and leaves the files present unchanged, for every
\* fetcher; when the first fetch returned, fetch_pexels_videos and
\* fetch_pixabay_media return the list it returned, and fetch_pixabay_music
\* does when random.choice draws the same track.
C7_IdempotentCaching ==
    [][SameFetchAgain =>
          /\ CacheRespected
          /\ (call.fn # "fetch_pixabay_music" \/ call'.pick = call.pick)
                => SameListReturned]_vars

C7_Witness ==
    /\ result # <<>>
    /\ call.repeat
    /\ ~result.raised
    /\ Cardinality(result.cached) = 2
    /\ result.downloads = {}

\* C10: every file in the clips or music directory holds the complete asset.
C10_CacheIntegrity ==
    /\ \A n \in ClipNames : clipsDir[n] \in {"absent", "complete"}
    /\ \A n \in MusicNames : musicDir[n] \in {"absent", "complete"}

\* C8: with N >= 1 clips every placed span is at least 2 seconds and the spans
\* sum to at least the narration's duration; with no clip the track is one
\* clip of exactly the narration's duration.
C8_Partition ==
    (result # <<>> /\ call.fn = "assemble_video" /\ ~result[1].raised) =>
        LET r == result[1]
            n == Len(call.clip_files)
        IN  IF n = 0
            THEN r.fallback /\ r.den = 1 /\ r.spans = <<call.audio_dur>>
            ELSE /\ Len(r.spans) = n
                 /\ \A i \in 1..n : r.spans[i] >= MinPerClip * r.den
                 /\ Sum(r.spans) >= call.audio_dur * r.den

\* C9: whatever the metadata response, generate_script_and_meta returns a
\* bundle with title, description and tags: the values of a JSON object that
\* carries the three keys, and the fallback computed from the topic for every
\* other response.
C9_MetaTotal ==
    ( /\ result # <<>>
      /\ call.fn = "generate_script_and_meta"
      /\ call.r_long.status = "ok"
      /\ call.r_short.status = "ok"
      /\ call.r_meta.status = "ok" )
    => LET g == result[1]
           doc == call.r_meta.content
       IN  /\ ~g.raised
           /\ MetaKeys \subseteq DOMAIN g.bundle
           /\ \A k \in MetaKeys :
                 g.bundle[k] = IF doc.kind = "object" /\ MetaKeys \subseteq doc.keys
                               THEN JsonValue(k)
                               ELSE FallbackMeta(call.topic)[k]

====
